---- MODULE Spec2Model ----
(***************************************************************************)
(* Model of app/assets/model.py: the Token model, its price resolution     *)
(* pipeline (screener -> oracle -> router), the lookup entry point find,   *)
(* the identity resolver from_chain and the catalog ingestion              *)
(* from_tokenlists, run by concurrent worker processes over one shared     *)
(* key-value store.  Every step of a process is one interaction with the   *)
(* outside (a store read or write, an HTTP request, a chain read-call)     *)
(* together with the local computation that follows it.                    *)
(***************************************************************************)
EXTENDS Integers, Sequences, FiniteSets, TLC

\* ------------------------------------------------------------------ bounds

\* Longest "pairs" list a screener response carries.
MaxPairs == 2
\* Longest "coins" mapping an oracle response carries.
MaxCoins == 1
\* Longest "tokens" list a tokenlist feed carries.
FeedLen == 2

\* ----------------------------------------------------------- configuration

\* Addresses are sequences of characters; upper-case letters have a
\* lower-case form.
LowerChar(c) ==
  CASE c = "A" -> "a"
    [] c = "B" -> "b"
    [] c = "C" -> "c"
    [] c = "D" -> "d"
    [] OTHER -> c

\* str.lower() on an address.
Lower(s) == [i \in DOMAIN s |-> LowerChar(s[i])]

\* The settings the module imports: the reference (stable) asset, the
\* bluechip set (the reference asset among them, so that its resolution
\* passes both peg tests), the ignore set and the tokenlist feeds.  The
\* addresses are configured in lower case, the form the store's keys have.
STABLE_TOKEN_ADDRESS == <<"a">>
BLUECHIP_TOKEN_ADDRESSES == {<<"a">>, <<"b">>}
IGNORED_TOKEN_ADDRESSES == {<<"d">>}
TOKENLISTS == <<"list1", "list2">>
\* w3.eth.chain_id of the node, and another chain's id.
OurChainId == "kava-id"
OtherChainId == "other-id"

\* The worker processes sharing the store.
Procs == {"p1", "p2"}

\* Addresses a caller may pass to find (any letter case).
FindAddresses == {<<"a">>, <<"A">>, <<"b">>, <<"B">>, <<"c">>}

\* ------------------------------------------------------- upstream outcomes

\* What the three identity read-calls can return for a contract.
Identities ==
  { [name |-> "n1", symbol |-> "s1", decimals |-> 0],
    [name |-> "n2", symbol |-> "s2", decimals |-> 1] }

\* priceUsd strings of the screener, as character sequences.  The empty
\* sequence stands for a priceUsd that is absent, null or "": all three are
\* falsy in `pair.get("priceUsd") or 0`.
PriceStrings ==
  { <<>>, <<"0">>, <<"2">>, <<"1", ",", "3">>, <<"x">> }

ScreenerPairs ==
  [chainId : {"kava", "ethereum"}, priceUsd : PriceStrings]

RECURSIVE SeqsUpTo(_, _)
\* All sequences over S of length at most n.
SeqsUpTo(S, n) ==
  IF n = 0 THEN {<<>>}
  ELSE LET shorter == SeqsUpTo(S, n - 1)
       IN  shorter \cup {Append(s, x) : s \in {t \in shorter : Len(t) = n - 1}, x \in S}

Fault(kind) == [fault |-> kind]
IsFault(r) == "fault" \in DOMAIN r

\* requests.get(...).json() on the screener endpoint: a network error, an
\* undecodable body, or a JSON object whose "pairs" is absent/null or a list.
ScreenerResponses ==
  {Fault("ConnectionError"), Fault("JSONDecodeError")}
    \cup {[pairs |-> ps] : ps \in SeqsUpTo(ScreenerPairs, MaxPairs)}

\* The entries of the oracle's "coins" mapping: with a price, or without.
OracleCoins == [price : {0, 3}] \cup [symbol : {"X"}]

\* requests.get(...).json() on the oracle endpoint.
OracleResponses ==
  {Fault("ConnectionError"), Fault("JSONDecodeError")}
    \cup {[coins |-> cs] : cs \in SeqsUpTo(OracleCoins, MaxCoins)}

\* Call(ROUTER_ADDRESS, getAmountOut...)(): a revert, a provider error, or
\* the amount out (multiples of ten, so that the scaling below is exact).
RouterResponses ==
  {Fault("ContractLogicError"), Fault("ConnectionError")}
    \cup {[amount |-> a] : a \in {0, 30}}

\* Multicall of name(), symbol(), decimals().
MulticallResponses ==
  {Fault("ContractLogicError")} \cup {[data |-> d] : d \in Identities}

\* ---------------------------------------------------------- pure functions

Digits == {"0", "1", "2", "3", "4", "5", "6", "7", "8", "9"}

DigitValue(c) ==
  CASE c = "0" -> 0 [] c = "1" -> 1 [] c = "2" -> 2 [] c = "3" -> 3
    [] c = "4" -> 4 [] c = "5" -> 5 [] c = "6" -> 6 [] c = "7" -> 7
    [] c = "8" -> 8 [] c = "9" -> 9

RECURSIVE StripCommas(_)
\* str.replace(",", "")
StripCommas(s) ==
  IF s = <<>> THEN <<>>
  ELSE IF Head(s) = "," THEN StripCommas(Tail(s))
       ELSE <<Head(s)>> \o StripCommas(Tail(s))

RECURSIVE DecimalValue(_)
DecimalValue(s) ==
  IF s = <<>> THEN 0
  ELSE 10 * DecimalValue(SubSeq(s, 1, Len(s) - 1)) + DigitValue(s[Len(s)])

\* float(text): the number, or a ValueError when text is no numeral.
ParseFloat(s) ==
  IF s # <<>> /\ \A i \in DOMAIN s : s[i] \in Digits
  THEN [value |-> DecimalValue(s)]
  ELSE Fault("ValueError")

\* str(pair.get("priceUsd") or 0).replace(",", "")
PriceText(pair) ==
  StripCommas(IF pair.priceUsd = <<>> THEN <<"0">> ELSE pair.priceUsd)

\* A filter that keeps the pairs of every chain.
PairsUnfiltered(pairs) == pairs

\* [pair for pair in pairs if pair["chainId"] == "kava"]
PairsInKava(pairs) == SelectSeq(pairs, LAMBDA pair : pair.chainId = "kava")

\* dexscreener_price_in_stables after the request: the price of a decoded
\* response, or the fault that escapes.
DexscreenerPrice(res) ==
  IF IsFault(res) THEN res
  ELSE IF Len(res.pairs) = 0 THEN [value |-> 0]
  ELSE IF Len(PairsInKava(res.pairs)) = 0
       THEN ParseFloat(PriceText(res.pairs[1]))
       ELSE ParseFloat(PriceText(PairsInKava(res.pairs)[1]))

\* coin.get("price", 0)
CoinPrice(coin) == IF "price" \in DOMAIN coin THEN coin.price ELSE 0

\* defillama_price_in_stables falling through to its last line.
DefillamaPriceDefault(res) ==
  IF IsFault(res) THEN res ELSE [value |-> 0]

\* defillama_price_in_stables after the request: the first coin's price.
DefillamaPrice(res) ==
  IF IsFault(res) THEN res
  ELSE IF Len(res.coins) = 0 THEN [value |-> 0]
  ELSE [value |-> CoinPrice(res.coins[1])]

\* The exceptions the except clause of aggregated_price_in_stables names.
CaughtOracleFaults == {"HTTPError", "JSONDecodeError"}

RECURSIVE Pow10(_)
Pow10(d) == IF d = 0 THEN 1 ELSE 10 * Pow10(d - 1)

\* chain_price_in_stables after the router call.
RouterPrice(res, stablecoin) ==
  IF IsFault(res)
  THEN IF res.fault = "ContractLogicError" THEN [value |-> 0] ELSE res
  ELSE [value |-> res.amount \div Pow10(stablecoin.decimals)]

\* -------------------------------------------------------------------- state

\* store: the records of the key-value store, by address (the primary key).
\* procs: each worker's position and locals.
VARIABLES store, procs

vars == <<store, procs>>

\* A Token instance in memory.  NoToken stands for "no instance" (None).
\* logoURI, stable and liquid_staked_address are stored with the record but
\* read by none of the operations; the record leaves them out.
Token(address, name, symbol, decimals, price) ==
  [address |-> address, name |-> name, symbol |-> symbol,
   decimals |-> decimals, price |-> price]

NoToken == Token(<<>>, "", "", 0, 0)

\* Model.create / Model.save: the hash stored under the primary key is
\* replaced by the instance's fields.
Saved(st, token) ==
  [a \in DOMAIN st \cup {token.address} |->
     IF a = token.address
     THEN [name |-> token.name, symbol |-> token.symbol,
           decimals |-> token.decimals, price |-> token.price]
     ELSE st[a]]

\* A load that mixes up two fields.
LoadedRenamed(st, key) ==
  [address |-> key, name |-> st[key].symbol, symbol |-> st[key].name,
   decimals |-> st[key].decimals, price |-> st[key].price]

\* Model.load(key) of a key the store holds.
Loaded(st, key) ==
  Token(key, st[key].name, st[key].symbol, st[key].decimals, st[key].price)

\* x is an element of the sequence seq.
Has(seq, x) == \E i \in DOMAIN seq : seq[i] = x

\* A request that was not made, a method that has not returned.
NotCalled == [called |-> FALSE]

\* What a method without a return statement hands to its caller: None.
NoValue == [none |-> TRUE]

\* A worker that runs nothing.  Besides the locals of the running methods
\* (arg, tok, stab, primary, feed, left) and the outcome (ret, exc), a worker
\* records what it did: calls lists the upstream requests of the running
\* find or price resolution in the order they were issued, oracle and
\* router are the responses those two requests got, store0 is the store
\* as the operation found it, and returned is what _update_price handed
\* back to the find or the caller that ran it.  prev is set while a caller
\* runs _update_price a second time in a row: what the first run was
\* answered and the price it saved.  screener is the body the screener
\* is known to answer with, where a run starts from a given answer.
Idle ==
  [op |-> "idle", pc |-> "idle", arg |-> <<>>, tok |-> NoToken,
   stab |-> NoToken, primary |-> 0, calls |-> <<>>, exc |-> "none",
   ret |-> NoToken, feed |-> 0, left |-> 0,
   oracle |-> NotCalled, router |-> NotCalled, store0 |-> <<>>,
   returned |-> NotCalled, prev |-> NotCalled, screener |-> NotCalled]

Init ==
  /\ store = <<>>
  /\ procs = [p \in Procs |-> Idle]

\* ------------------------------------------------------- control transfers

\* The except clause of from_tokenlists: log and go on with the next feed.
NextFeed(P) ==
  [Idle EXCEPT !.op = "ingest", !.pc = "feed", !.feed = P.feed + 1]

\* An exception leaves the running method: inside from_tokenlists the
\* feed's try block catches it, otherwise it reaches the caller.
Raise(P, kind) ==
  IF P.op = "ingest" THEN NextFeed(P)
  ELSE [P EXCEPT !.pc = "done", !.exc = kind]

\* The always-false peg test.
NeverPegged(token) == FALSE

\* "Peg it forever": self.address == STABLE_TOKEN_ADDRESS.
Pegged(token) == token.address = STABLE_TOKEN_ADDRESS

\* _update_price after aggregated_price_in_stables returned price.
AfterAggregated(P, price) ==
  [P EXCEPT !.tok.price = price,
            !.pc = IF price = 0 THEN "chain" ELSE "save"]

\* aggregated_price_in_stables without its early return.
AlwaysSecondOpinion(P, price) ==
  [P EXCEPT !.primary = price, !.pc = "oracle"]

\* aggregated_price_in_stables after dexscreener_price_in_stables returned.
AfterPrimary(P, price) ==
  IF price # 0 /\ P.tok.address \notin BLUECHIP_TOKEN_ADDRESSES
  THEN AfterAggregated([P EXCEPT !.primary = price], price)
  ELSE [P EXCEPT !.primary = price, !.pc = "oracle"]

\* ------------------------------------------------------------------- find

\* Token.find(None): no address, no result.
FindNone(p) ==
  /\ procs[p].op = "idle"
  /\ procs' = [procs EXCEPT ![p] =
       [Idle EXCEPT !.op = "find", !.pc = "done", !.store0 = store]]
  /\ UNCHANGED store

\* A find that re-prices the record it found.
FindRepricing(p, address) ==
  /\ procs[p].op = "idle"
  /\ LET key == Lower(address)
         P == [procs[p] EXCEPT !.op = "find", !.arg = address,
                               !.store0 = store]
     IN  procs' = [procs EXCEPT ![p] =
           IF key \in DOMAIN store
           THEN [P EXCEPT !.pc = "screener",
                          !.tok = [address |-> key, name |-> store[key].name,
                                   symbol |-> store[key].symbol,
                                   decimals |-> store[key].decimals,
                                   price |-> store[key].price]]
           ELSE [P EXCEPT !.pc = "multicall"]]
  /\ UNCHANGED store

\* Token.find(address): cls.load(address.lower()); a KeyError leads to
\* from_chain(address.lower()).
Find(p, address) ==
  /\ procs[p].op = "idle"
  /\ LET key == Lower(address)
         P == [Idle EXCEPT !.op = "find", !.arg = address, !.store0 = store]
     IN  procs' = [procs EXCEPT ![p] =
           IF key \in DOMAIN store
           THEN [P EXCEPT !.pc = "done", !.ret = Loaded(store, key)]
           ELSE [P EXCEPT !.pc = "multicall"]]
  /\ UNCHANGED store

\* A from_chain that swallows the failure of the identity read.
FromChainMulticallQuiet(p) ==
  /\ procs[p].pc = "multicall"
  /\ \E res \in MulticallResponses :
       LET P == [procs[p] EXCEPT !.calls = Append(@, "multicall")]
       IN  procs' = [procs EXCEPT ![p] =
             IF IsFault(res) THEN [P EXCEPT !.pc = "done"]
             ELSE [P EXCEPT !.pc = "create",
                            !.tok = Token(Lower(P.arg), res.data.name,
                                          res.data.symbol, res.data.decimals,
                                          0)]]
  /\ UNCHANGED store

\* A from_chain that keeps the address as it was given.
FromChainMulticallAsGiven(p) ==
  /\ procs[p].pc = "multicall"
  /\ \E res \in MulticallResponses :
       LET P == [procs[p] EXCEPT !.calls = Append(@, "multicall")]
       IN  procs' = [procs EXCEPT ![p] =
             IF IsFault(res) THEN Raise(P, res.fault)
             ELSE [P EXCEPT !.pc = "create",
                            !.tok = [address |-> P.arg,
                                     name |-> res.data.name,
                                     symbol |-> res.data.symbol,
                                     decimals |-> res.data.decimals,
                                     price |-> 0]]]
  /\ UNCHANGED store

\* from_chain: the batched read of name(), symbol(), decimals().
FromChainMulticall(p) ==
  /\ procs[p].pc = "multicall"
  /\ \E res \in MulticallResponses :
       LET P == [procs[p] EXCEPT !.calls = Append(@, "multicall")]
       IN  procs' = [procs EXCEPT ![p] =
             IF IsFault(res) THEN Raise(P, res.fault)
             ELSE [P EXCEPT !.pc = "create",
                            !.tok = Token(Lower(P.arg), res.data.name,
                                          res.data.symbol, res.data.decimals,
                                          0)]]
  /\ UNCHANGED store

\* A from_chain that creates the record only while the store holds none
\* under that key.
FromChainCreateOnce(p) ==
  /\ procs[p].pc = "create"
  /\ procs[p].tok.address \notin DOMAIN store
  /\ store' = Saved(store, procs[p].tok)
  /\ procs' = [procs EXCEPT ![p].pc = "screener"]

\* from_chain: cls.create(address=address, **data), then _update_price().
FromChainCreate(p) ==
  /\ procs[p].pc = "create"
  /\ store' = Saved(store, procs[p].tok)
  /\ procs' = [procs EXCEPT ![p].pc = "screener"]

\* ---------------------------------------------------------- _update_price

\* A caller loads an existing record and re-resolves its price.
UpdatePrice(p, key) ==
  /\ procs[p].op = "idle"
  /\ key \in DOMAIN store
  /\ procs' = [procs EXCEPT ![p] =
       [Idle EXCEPT !.op = "update", !.pc = "screener", !.arg = key,
                    !.tok = Loaded(store, key), !.store0 = store]]
  /\ UNCHANGED store

\* dexscreener_price_in_stables, and the test that follows it in
\* aggregated_price_in_stables.
Dexscreener(p) ==
  /\ procs[p].pc = "screener"
  /\ IF Pegged(procs[p].tok)
     THEN procs' = [procs EXCEPT ![p] = AfterPrimary(procs[p], 1)]
     ELSE \E res \in ScreenerResponses :
            LET P == [procs[p] EXCEPT !.calls = Append(@, "screener")]
                price == DexscreenerPrice(res)
            IN  procs' = [procs EXCEPT ![p] =
                  IF IsFault(price) THEN Raise(P, price.fault)
                  ELSE AfterPrimary(P, price.value)]
  /\ UNCHANGED store

\* defillama_price_in_stables inside the try of aggregated_price_in_stables.
Defillama(p) ==
  /\ procs[p].pc = "oracle"
  /\ IF Pegged(procs[p].tok)
     THEN procs' = [procs EXCEPT ![p] = AfterAggregated(procs[p], 1)]
     ELSE \E res \in OracleResponses :
            LET P == [procs[p] EXCEPT !.calls = Append(@, "oracle"),
                                      !.oracle = res]
                price == DefillamaPrice(res)
            IN  procs' = [procs EXCEPT ![p] =
                  IF ~IsFault(price) THEN AfterAggregated(P, price.value)
                  ELSE IF price.fault \in CaughtOracleFaults
                       THEN AfterAggregated(P, P.primary)
                       ELSE Raise(P, price.fault)]
  /\ UNCHANGED store

\* A router pass that fetches the stablecoin from the chain every time.
ChainFindStableRefetch(p) ==
  /\ procs[p].pc = "chain"
  /\ LET P == procs[p]
     IN  procs' = [procs EXCEPT ![p] =
           IF Pegged(P.tok)
           THEN [P EXCEPT !.tok.price = 1, !.pc = "save"]
           ELSE [P EXCEPT !.pc = "stable_multicall"]]
  /\ UNCHANGED store

\* chain_price_in_stables up to Token.find(STABLE_TOKEN_ADDRESS): the peg
\* test, then the store lookup of the stablecoin.
ChainFindStable(p) ==
  /\ procs[p].pc = "chain"
  /\ LET P == procs[p]
         key == Lower(STABLE_TOKEN_ADDRESS)
     IN  procs' = [procs EXCEPT ![p] =
           IF Pegged(P.tok)
           THEN [P EXCEPT !.tok.price = 1, !.pc = "save"]
           ELSE IF key \in DOMAIN store
                THEN [P EXCEPT !.stab = Loaded(store, key), !.pc = "router"]
                ELSE [P EXCEPT !.pc = "stable_multicall"]]
  /\ UNCHANGED store

\* from_chain(STABLE_TOKEN_ADDRESS) under chain_price_in_stables: the
\* identity read.
StableMulticall(p) ==
  /\ procs[p].pc = "stable_multicall"
  /\ \E res \in MulticallResponses :
       LET P == [procs[p] EXCEPT !.calls = Append(@, "multicall")]
       IN  procs' = [procs EXCEPT ![p] =
             IF IsFault(res) THEN Raise(P, res.fault)
             ELSE [P EXCEPT !.pc = "stable_create",
                            !.stab = Token(Lower(STABLE_TOKEN_ADDRESS),
                                           res.data.name, res.data.symbol,
                                           res.data.decimals, 0)]]
  /\ UNCHANGED store

\* from_chain(STABLE_TOKEN_ADDRESS): cls.create, then the stablecoin's own
\* _update_price up to its save (the peg answers without a request).
StableCreate(p) ==
  /\ procs[p].pc = "stable_create"
  /\ store' = Saved(store, procs[p].stab)
  /\ procs' = [procs EXCEPT ![p].pc = "stable_save",
                            ![p].stab.price = 1]

\* A router pass that gives up (price 0) when it had to create the
\* stablecoin's record first.
StableSaveSkipsRouter(p) ==
  /\ procs[p].pc = "stable_save"
  /\ store' = Saved(store, procs[p].stab)
  /\ procs' = [procs EXCEPT ![p].pc = "save"]

\* The stablecoin's _update_price: self.save().
StableSave(p) ==
  /\ procs[p].pc = "stable_save"
  /\ store' = Saved(store, procs[p].stab)
  /\ procs' = [procs EXCEPT ![p].pc = "router"]

\* chain_price_in_stables: the getAmountOut read-call and its scaling.
Router(p) ==
  /\ procs[p].pc = "router"
  /\ \E res \in RouterResponses :
       LET P == [procs[p] EXCEPT !.calls = Append(@, "router"),
                                 !.router = res]
           price == RouterPrice(res, P.stab)
       IN  procs' = [procs EXCEPT ![p] =
             IF IsFault(price) THEN Raise(P, price.fault)
             ELSE [P EXCEPT !.tok.price = price.value, !.pc = "save"]]
  /\ UNCHANGED store

\* An _update_price that ends without self.save().
SaveUnwritten(p) ==
  /\ procs[p].pc = "save"
  /\ UNCHANGED store
  /\ procs' = [procs EXCEPT ![p] =
       IF procs[p].op = "ingest"
       THEN [Idle EXCEPT !.op = "ingest", !.pc = "entry",
                         !.feed = procs[p].feed, !.left = procs[p].left]
       ELSE IF procs[p].op = "find"
            THEN [procs[p] EXCEPT !.pc = "done", !.ret = procs[p].tok,
                                  !.returned = NoValue]
            ELSE [procs[p] EXCEPT !.pc = "done", !.returned = NoValue]]

\* _update_price: self.save(), and the return to the caller (the method
\* has no return statement): from_chain returns the token to find,
\* from_tokenlists goes on with the next entry.
Save(p) ==
  /\ procs[p].pc = "save"
  /\ store' = Saved(store, procs[p].tok)
  /\ procs' = [procs EXCEPT ![p] =
       IF procs[p].op = "ingest"
       THEN [Idle EXCEPT !.op = "ingest", !.pc = "entry",
                         !.feed = procs[p].feed, !.left = procs[p].left]
       ELSE IF procs[p].op = "find"
            THEN [procs[p] EXCEPT !.pc = "done", !.ret = procs[p].tok,
                                  !.returned = NoValue]
            ELSE [procs[p] EXCEPT !.pc = "done", !.returned = NoValue]]

\* The caller takes the result (or the exception) of a finished call.
Return(p) ==
  /\ procs[p].pc = "done"
  /\ procs' = [procs EXCEPT ![p] = Idle]
  /\ UNCHANGED store

\* -------------------------------------------------------- from_tokenlists

\* The entries a tokenlist can carry.  lsa tells whether the entry has a
\* "liquid_staked_address" key, and whether its value is empty.
FeedEntries ==
  [chainId : {OurChainId, OtherChainId},
   address : {<<"A">>, <<"b">>, <<"c">>, <<"D">>},
   ident : Identities,
   tags : {<<>>, <<"stablecoin">>},
   lsa : {"missing", "empty", "set"}]

\* from_tokenlists: our_chain_id = w3.eth.chain_id, then the loop over
\* TOKENLISTS.
FromTokenlists(p) ==
  /\ procs[p].op = "idle"
  /\ procs' = [procs EXCEPT ![p] =
       [Idle EXCEPT !.op = "ingest", !.pc = "feed", !.feed = 1]]
  /\ UNCHANGED store

\* res = requests.get(tlist).json(), or the end of the loop over TOKENLISTS.
\* The entries of res["tokens"] are drawn one by one as the loop reads them.
FetchFeed(p) ==
  /\ procs[p].pc = "feed"
  /\ IF procs[p].feed > Len(TOKENLISTS)
     THEN procs' = [procs EXCEPT ![p].pc = "done"]
     ELSE \/ \E kind \in {"ConnectionError", "JSONDecodeError", "KeyError"} :
               procs' = [procs EXCEPT ![p] = Raise(procs[p], kind)]
          \/ \E n \in 0..FeedLen :
               procs' = [procs EXCEPT ![p].pc = "entry", ![p].left = n]
  /\ UNCHANGED store

\* One pass of `for token_data in res["tokens"]` up to _update_price: the
\* chain and ignore filters, the address normalisation, cls.create and the
\* stable tag (token.stable is kept in no record here; reading tags[0] can
\* fail).
Entry(p) ==
  /\ procs[p].pc = "entry"
  /\ IF procs[p].left = 0
     THEN /\ procs' = [procs EXCEPT ![p] = NextFeed(procs[p])]
          /\ UNCHANGED store
     ELSE \E e \in FeedEntries :
            LET P == [procs[p] EXCEPT !.left = @ - 1]
                address == Lower(e.address)
                token == Token(address, e.ident.name, e.ident.symbol,
                               e.ident.decimals, 0)
            IN  IF e.chainId # OurChainId \/ address \in IGNORED_TOKEN_ADDRESSES
                THEN /\ procs' = [procs EXCEPT ![p] = P]
                     /\ UNCHANGED store
                ELSE IF e.lsa = "missing"
                THEN /\ procs' = [procs EXCEPT ![p] = Raise(P, "KeyError")]
                     /\ UNCHANGED store
                ELSE /\ store' = Saved(store, token)
                     /\ procs' = [procs EXCEPT ![p] =
                          IF Len(e.tags) = 0 THEN Raise(P, "IndexError")
                          ELSE [P EXCEPT !.pc = "screener", !.tok = token]]

\* ------------------------------------------------------------ specification

\* One step of worker p.
Step(p) ==
    \/ FindNone(p)
    \/ \E address \in FindAddresses : Find(p, address)
    \/ FromChainMulticall(p)
    \/ FromChainCreate(p)
    \/ \E key \in DOMAIN store : UpdatePrice(p, key)
    \/ Dexscreener(p)
    \/ Defillama(p)
    \/ ChainFindStable(p)
    \/ StableMulticall(p)
    \/ StableCreate(p)
    \/ StableSave(p)
    \/ Router(p)
    \/ Save(p)
    \/ Return(p)
    \/ FromTokenlists(p)
    \/ FetchFeed(p)
    \/ Entry(p)

\* One worker runs its operations one after the other.
Next == Step("p1")

Spec == Init /\ [][Next]_vars

\* ------------------------------------------- two resolutions in a row

\* A caller whose find or _update_price has just run the price resolution
\* of a token calls _update_price on that token's record once more.
Again(p) ==
  /\ procs[p].pc = "done"
  /\ procs[p].returned = NoValue
  /\ procs[p].prev = NotCalled
  /\ LET P == procs[p]
         key == P.tok.address
     IN  procs' = [procs EXCEPT ![p] =
           [Idle EXCEPT !.op = "update", !.pc = "screener", !.arg = key,
                        !.tok = Loaded(store, key), !.store0 = store,
                        !.prev = [price |-> P.tok.price,
                                  screened |-> Has(P.calls, "screener"),
                                  primary |-> P.primary,
                                  oracle |-> P.oracle,
                                  router |-> P.router]]]
  /\ UNCHANGED store

\* Deterministic upstream sources: in the second run a source that
\* answered the first run answers the same request the same way (the
\* screener the same price, the oracle the same body or fault, the router
\* the same amount or fault, none of them a fault that ended the first run).
Repeats(P) ==
  \/ P.prev = NotCalled
  \/ /\ P.exc = "none"
     /\ (P.prev.screened /\ Has(P.calls, "screener")) =>
          P.primary = P.prev.primary
     /\ \/ P.prev.oracle = NotCalled
        \/ P.oracle \in {NotCalled, P.prev.oracle}
     /\ \/ P.prev.router = NotCalled
        \/ P.router \in {NotCalled, P.prev.router}

\* One worker; its price resolutions may be run twice in a row against
\* deterministic sources.
NextTwice ==
  /\ Step("p1") \/ Again("p1")
  /\ Repeats(procs'["p1"])

SpecTwice == Init /\ [][NextTwice]_vars

\* --------------------------------------------------- concurrent finds

\* The addresses two concurrent callers ask for: one token, in either
\* letter case.
SharedAddresses == {<<"b">>, <<"B">>}

\* One step of a worker that serves a single find.
FindStep(p) ==
    \/ \E address \in SharedAddresses : Find(p, address)
    \/ FromChainMulticall(p)
    \/ FromChainCreate(p)
    \/ Dexscreener(p)
    \/ Defillama(p)
    \/ ChainFindStable(p)
    \/ StableMulticall(p)
    \/ StableCreate(p)
    \/ StableSave(p)
    \/ Router(p)
    \/ Save(p)

\* The workers run their finds concurrently over the shared store; nothing
\* in find or from_chain takes a lock, so their steps interleave freely.
NextFind == \E p \in Procs : FindStep(p)

SpecFind == Init /\ [][NextFind]_vars

\* ------------------------------------------- the screener price alone

\* A caller is about to re-resolve the price of a stored record of b or c
\* (price 0, as a find that failed after its create leaves it), and the
\* screener's answer to the request is any of its possible answers.
InitScreener ==
  \E res \in ScreenerResponses : \E key \in {<<"b">>, <<"c">>} :
    /\ store = Saved(<<>>, Token(key, "n1", "s1", 0, 0))
    /\ procs = [p \in Procs |->
         IF p = "p1"
         THEN [Idle EXCEPT !.op = "update", !.pc = "screener", !.arg = key,
                           !.tok = Loaded(store, key), !.store0 = store,
                           !.screener = res]
         ELSE Idle]

\* dexscreener_price_in_stables on the given answer, and the test that
\* follows it in aggregated_price_in_stables.
DexscreenerAnswered(p) ==
  /\ procs[p].pc = "screener"
  /\ procs[p].screener # NotCalled
  /\ ~Pegged(procs[p].tok)
  /\ LET P == [procs[p] EXCEPT !.calls = Append(@, "screener")]
         price == DexscreenerPrice(procs[p].screener)
     IN  procs' = [procs EXCEPT ![p] =
           IF IsFault(price) THEN Raise(P, price.fault)
           ELSE AfterPrimary(P, price.value)]
  /\ UNCHANGED store

NextScreener == DexscreenerAnswered("p1")

SpecScreener == InitScreener /\ [][NextScreener]_vars

\* ------------------------------------------------------------------ claims

\* The upstream request a worker issued last ("" before the first).
LastCall(P) == IF P.calls = <<>> THEN "" ELSE P.calls[Len(P.calls)]

\* The price a decoded oracle response carries in its first coin, the way
\* the oracle's interface states it.
OracleQuoted(res, v) ==
  /\ "coins" \in DOMAIN res
  /\ Len(res.coins) > 0
  /\ "price" \in DOMAIN res.coins[1]
  /\ res.coins[1].price = v

\* C1: price resolution of the reference asset consults no screener, no
\* oracle and no router, never starts the router pass, raises nothing, and
\* the price it saves and leaves in the store is exactly 1.
C1_StablePegged ==
  \A p \in Procs :
    LET P == procs[p]
    IN  P.tok.address = STABLE_TOKEN_ADDRESS =>
          /\ ~Has(P.calls, "screener")
          /\ ~Has(P.calls, "oracle")
          /\ ~Has(P.calls, "router")
          /\ P.oracle = NotCalled /\ P.router = NotCalled
          /\ P.exc = "none"
          /\ P.pc \in {"create", "screener", "oracle", "save", "done"}
          /\ P.pc = "save" => P.tok.price = 1
          /\ P.pc = "done" =>
               P.tok.price = 1 /\ store[STABLE_TOKEN_ADDRESS].price = 1

\* A re-resolution of the reference asset that found its record at price 0
\* and left it at 1.
C1_Witness ==
  \E p \in Procs :
    /\ procs[p].op = "update" /\ procs[p].pc = "done"
    /\ procs[p].tok.address = STABLE_TOKEN_ADDRESS
    /\ procs[p].store0[STABLE_TOKEN_ADDRESS].price = 0
    /\ store[STABLE_TOKEN_ADDRESS].price = 1

\* C2: price resolution of a record never raises: no find and no
\* re-resolution that has a token record in hand ends with an exception.
C2_NeverRaises ==
  \A p \in Procs : procs[p].tok # NoToken => procs[p].exc = "none"

\* C3: for a token that is neither bluechip nor the reference asset, a
\* non-zero screener price is the final price: neither oracle nor router is
\* queried, nothing is raised, and that price is saved.
C3_PrimaryWins ==
  \A p \in Procs :
    LET P == procs[p]
    IN  ( /\ P.tok # NoToken
          /\ P.tok.address \notin BLUECHIP_TOKEN_ADDRESSES
          /\ P.tok.address # STABLE_TOKEN_ADDRESS
          /\ P.primary # 0 ) =>
          /\ P.calls[Len(P.calls)] = "screener"
          /\ P.oracle = NotCalled /\ P.router = NotCalled
          /\ P.exc = "none"
          /\ P.pc \in {"save", "done"}
          /\ P.tok.price = P.primary
          /\ P.pc = "done" => store[P.tok.address].price = P.primary

\* find of an unseen ordinary token whose screener price "1,3" (13) was
\* saved.
C3_Witness ==
  \E p \in Procs :
    /\ procs[p].op = "find" /\ procs[p].pc = "done"
    /\ procs[p].tok.address = <<"c">>
    /\ procs[p].primary = 13
    /\ store[<<"c">>].price = 13

\* C4: for a bluechip token, a decoded oracle response with a non-zero
\* first price decides the final price, whatever the screener said: the
\* router is not queried, nothing is raised, and the oracle's price is
\* saved.
C4_OracleOverrides ==
  \A p \in Procs :
    LET P == procs[p]
    IN  \A v \in 1..3 :
          ( /\ P.tok.address \in BLUECHIP_TOKEN_ADDRESSES
            /\ OracleQuoted(P.oracle, v) ) =>
            /\ P.router = NotCalled
            /\ P.exc = "none"
            /\ P.pc \in {"save", "done"}
            /\ P.tok.price = v
            /\ P.pc = "done" => store[P.tok.address].price = v

\* A bluechip whose screener price was non-zero and differs from the
\* oracle's price, which was saved.
C4_Witness ==
  \E p \in Procs :
    /\ procs[p].pc = "done"
    /\ procs[p].tok.address = <<"b">>
    /\ procs[p].primary = 2
    /\ OracleQuoted(procs[p].oracle, 3)
    /\ store[<<"b">>].price = 3

\* C5: when the oracle request raised a transport or decode fault (and no
\* later request was made), nothing is raised to the caller and the price
\* chosen by the first two passes is the screener price.
C5_OracleFaultFallsBack ==
  \A p \in Procs :
    LET P == procs[p]
    IN  (IsFault(P.oracle) /\ LastCall(P) = "oracle") =>
          P.exc = "none" /\ P.tok.price = P.primary

\* C6: screener price 0, oracle price 0 or an oracle fault, and a router
\* that reverts or quotes 0: nothing is raised and the final price, also
\* the one saved, is 0.
C6_AllFailZero ==
  \A p \in Procs :
    LET P == procs[p]
    IN  ( /\ P.tok # NoToken
          /\ Has(P.calls, "oracle") /\ P.primary = 0
          /\ \/ IsFault(P.oracle)
             \/ "coins" \in DOMAIN P.oracle /\ Len(P.oracle.coins) = 0
             \/ OracleQuoted(P.oracle, 0)
             \/ "coins" \in DOMAIN P.oracle /\ Len(P.oracle.coins) > 0
                  /\ "price" \notin DOMAIN P.oracle.coins[1]
          /\ LastCall(P) \in {"oracle", "router"}
          /\ P.router \in {NotCalled, Fault("ContractLogicError"),
                           [amount |-> 0]} ) =>
          /\ P.exc = "none"
          /\ P.pc = "done" =>
               P.tok.price = 0 /\ store[P.tok.address].price = 0

\* The name, symbol and decimals of two records agree.
SameIdentity(r, q) ==
  r.name = q.name /\ r.symbol = q.symbol /\ r.decimals = q.decimals

\* C7: find of an address whose lower-case form is a key of the store is
\* one store lookup: it returns the stored record as it is, issues no
\* request, raises nothing and leaves the store as it was.
C7_FindHitReturnsStored ==
  [][\A p \in Procs : \A address \in FindAddresses :
       ( /\ procs[p].op = "idle"
         /\ procs'[p].op = "find"
         /\ procs'[p].arg = address
         /\ Lower(address) \in DOMAIN store ) =>
         /\ store' = store
         /\ procs'[p].pc = "done"
         /\ procs'[p].exc = "none"
         /\ procs'[p].calls = <<>>
         /\ procs'[p].tok = NoToken
         /\ procs'[p].ret.address = Lower(address)
         /\ procs'[p].ret.price = store[Lower(address)].price
         /\ SameIdentity(procs'[p].ret, store[Lower(address)])]_vars

\* find("B") answered from the store, with the stored (non-zero) price.
C7_Witness ==
  \E p \in Procs :
    /\ procs[p].op = "find" /\ procs[p].pc = "done"
    /\ procs[p].arg = <<"B">>
    /\ procs[p].calls = <<>>
    /\ procs[p].ret.address = <<"b">>
    /\ procs[p].ret.price = store[<<"b">>].price
    /\ procs[p].ret.price # 0
    /\ procs[p].store0 = store

\* A find of an address the store did not hold has returned.
FindMissReturned(P) ==
  /\ P.op = "find" /\ P.pc = "done" /\ P.exc = "none"
  /\ P.arg # <<>>
  /\ Lower(P.arg) \notin DOMAIN P.store0

\* What such a find leaves for its own address: a record under the
\* lower-case key with the identity read from the chain (one batched read,
\* the first request of the call) and the price just resolved, which is
\* also the returned token.
FindMissRecord(P) ==
  LET key == Lower(P.arg)
  IN  /\ key \in DOMAIN store
      /\ P.calls[1] = "multicall"
      /\ P.tok.address = key
      /\ SameIdentity(store[key], P.tok)
      /\ P.tok.name # ""
      /\ store[key].price = P.tok.price
      /\ P.ret = P.tok
      /\ \A a \in DOMAIN P.store0 : a \in DOMAIN store /\ store[a] = P.store0[a]

\* C8 as stated: find of an unseen address creates exactly one record.
C8_FindCreatesExactlyOne ==
  \A p \in Procs :
    FindMissReturned(procs[p]) =>
      /\ FindMissRecord(procs[p])
      /\ DOMAIN store = DOMAIN procs[p].store0 \cup {Lower(procs[p].arg)}

\* C8 amended: find of an unseen address creates the record of that address
\* (lower-case key, identity from the chain, freshly resolved price) and no
\* other record, except that of the reference asset when the router pass
\* looked it up and the store did not hold it; that one is priced 1.
C8_FindCreatesRecord ==
  \A p \in Procs :
    LET P == procs[p]
        key == Lower(P.arg)
        new == DOMAIN store \ (DOMAIN P.store0 \cup {key})
    IN  FindMissReturned(P) =>
          /\ FindMissRecord(P)
          /\ new \subseteq {STABLE_TOKEN_ADDRESS}
          /\ new # {} =>
               /\ LastCall(P) = "router"
               /\ P.stab.address = STABLE_TOKEN_ADDRESS
               /\ SameIdentity(store[STABLE_TOKEN_ADDRESS], P.stab)
               /\ store[STABLE_TOKEN_ADDRESS].price = 1

\* find("B") on an empty store returned after the router pass: the records
\* of b and of the reference asset exist.
C8_Witness ==
  \E p \in Procs :
    /\ FindMissReturned(procs[p])
    /\ procs[p].arg = <<"B">>
    /\ DOMAIN procs[p].store0 = {}
    /\ DOMAIN store = {<<"a">>, <<"b">>}
    /\ store[<<"b">>].price = 3
    /\ "amount" \in DOMAIN procs[p].router

\* C9 as stated: no step changes the name, symbol or decimals of a record
\* the store holds.
C9_IdentityNeverChanges ==
  [][\A a \in DOMAIN store :
       a \in DOMAIN store' /\ SameIdentity(store[a], store'[a])]_vars

\* C9 amended: in a sequence of operations no record is deleted, and find
\* and price resolution leave the name, symbol and decimals of every stored
\* record alone; the one step that changes them is catalog ingestion
\* creating the record of a feed entry over the stored one.
C9_IdentityChangedOnlyByIngestion ==
  [][\A a \in DOMAIN store :
       /\ a \in DOMAIN store'
       /\ \/ SameIdentity(store[a], store'[a])
          \/ \E p \in Procs :
               /\ procs[p].op = "ingest" /\ procs[p].pc = "entry"
               /\ procs[p].left > 0 /\ procs'[p] # procs[p]
               /\ store'[a].price = 0]_vars

\* A re-resolution changed the price of a record and kept its identity.
C9_Witness ==
  \E p \in Procs :
    LET P == procs[p]
    IN  /\ P.op = "update" /\ P.pc = "done" /\ P.exc = "none"
        /\ P.arg \in DOMAIN P.store0
        /\ store[P.arg].price # P.store0[P.arg].price
        /\ SameIdentity(store[P.arg], P.store0[P.arg])
        /\ store[P.arg].name = "n2"

\* C10: in every state the record of the reference asset, when the store
\* holds one, has price exactly 1.
C10_StableAlwaysOne ==
  STABLE_TOKEN_ADDRESS \in DOMAIN store =>
    store[STABLE_TOKEN_ADDRESS].price = 1

\* C11: when the batched identity read of a find on an unseen address
\* fails, the chain-call error reaches the caller of find, the identity
\* read is the only request made (no screener, oracle or router), no record
\* is created for the address and the store is as the find found it.
C11_IdentityFaultSurfaces ==
  \A p \in Procs :
    LET P == procs[p]
        key == Lower(P.arg)
    IN  ( /\ P.op = "find" /\ P.pc = "done" /\ P.arg # <<>>
          /\ key \notin DOMAIN P.store0
          /\ P.tok = NoToken ) =>
          /\ P.exc = "ContractLogicError"
          /\ P.ret = NoToken
          /\ P.calls = <<"multicall">>
          /\ P.oracle = NotCalled /\ P.router = NotCalled
          /\ key \notin DOMAIN store
          /\ store = P.store0

\* find("c") failed on its identity read over a store that holds another
\* record.
C11_Witness ==
  \E p \in Procs :
    /\ procs[p].op = "find" /\ procs[p].pc = "done"
    /\ procs[p].arg = <<"c">>
    /\ procs[p].exc = "ContractLogicError"
    /\ procs[p].calls = <<"multicall">>
    /\ DOMAIN store = {<<"b">>}
    /\ store = procs[p].store0

\* The entries of the current feed that the loop of from_tokenlists has
\* not read yet, once the step a worker is about to take is over.
Unread(P) ==
  IF P.pc = "entry" THEN (IF P.left = 0 THEN 0 ELSE P.left - 1) ELSE P.left

\* C12: a failure while processing one entry of a feed does not stop the
\* ingestion of that feed: ingestion leaves a feed whose body it received
\* only when no entry of it is left unread, so that every later entry is
\* still created and priced.
C12_EntryFailureKeepsFeed ==
  [][\A p \in Procs :
       ( /\ procs[p].op = "ingest"
         /\ procs[p].pc # "feed"
         /\ procs'[p].pc = "feed" ) =>
         Unread(procs[p]) = 0]_vars

C14_Idempotent ==
  \A p \in Procs :
    LET P == procs[p]
        key == P.tok.address
    IN  /\ (P.prev # NotCalled /\ P.pc = "done") =>
             /\ P.exc = "none"
             /\ P.tok.price = P.prev.price
             /\ store[key].price = P.prev.price
             /\ DOMAIN store = DOMAIN P.store0
        /\ (P.op = "update" /\ P.pc = "done" /\ P.exc = "none") =>
             /\ key = P.arg /\ key \in DOMAIN P.store0
             /\ SameIdentity(store[key], P.store0[key])
             /\ \A a \in DOMAIN P.store0 \ {key} :
                  a \in DOMAIN store /\ store[a] = P.store0[a]

\* The second run for b ended at the router's price 3 again, the price
\* the first run had saved after screener and oracle had both said 0.
C14_Witness ==
  \E p \in Procs :
    LET P == procs[p]
    IN  /\ P.prev # NotCalled /\ P.pc = "done"
        /\ P.tok.address = <<"b">>
        /\ P.prev.price = 3 /\ P.tok.price = 3
        /\ P.calls = <<"screener", "oracle", "router">>
        /\ P.router = [amount |-> 30]
        /\ store = P.store0

\* The price the screener and oracle passes chose, from what the two
\* sources answered: the oracle's price when the oracle answered, else the
\* screener's.
Aggregate(P) ==
  IF P.oracle = NotCalled \/ IsFault(P.oracle) THEN P.primary
  ELSE DefillamaPrice(P.oracle).value

\* The screener and oracle passes of the ended find or price resolution
\* chose a price (neither of them raised).
AggregateChosen(P) ==
  /\ P.pc = "done" /\ P.tok # NoToken
  /\ ~(P.exc # "none" /\ LastCall(P) \in {"screener", "oracle"})

\* C15: in a price resolution whose screener and oracle passes chose a
\* price, the router read-call was issued if and only if that price is
\* exactly 0, and a non-zero price is the token's price.
C15_RouterIffZero ==
  \A p \in Procs :
    LET P == procs[p]
    IN  AggregateChosen(P) =>
          /\ Has(P.calls, "router") <=> Aggregate(P) = 0
          /\ P.router # NotCalled <=> Aggregate(P) = 0
          /\ Aggregate(P) # 0 => P.tok.price = Aggregate(P)

\* The requests to the three price sources among the requests a worker
\* issued, in the order it issued them (the identity reads left out).
PriceCalls(P) == SelectSeq(P.calls, LAMBDA c : c # "multicall")

\* s is an initial part of t.
IsPrefix(s, t) == Len(s) <= Len(t) /\ s = SubSeq(t, 1, Len(s))

\* C16: a worker resolving the price of a token other than the reference
\* asset issues its price requests one at a time, each source at most
\* once, in the order screener, oracle, router; and once the screener has
\* answered, the oracle is the next source asked, or has been asked,
\* exactly when the screener price is 0 or the token is a bluechip.
C16_StrictOrder ==
  \A p \in Procs :
    LET P == procs[p]
        answered == /\ Has(P.calls, "screener")
                    /\ ~(P.exc # "none" /\ LastCall(P) = "screener")
    IN  (P.tok # NoToken /\ P.tok.address # STABLE_TOKEN_ADDRESS) =>
          /\ IsPrefix(PriceCalls(P), <<"screener", "oracle", "router">>)
          /\ P.pc = "oracle" => answered
          /\ P.oracle # NotCalled <=> Has(P.calls, "oracle")
          /\ P.router # NotCalled <=> Has(P.calls, "router")
          /\ answered =>
               ( (P.pc = "oracle" \/ Has(P.calls, "oracle")) <=>
                 (P.primary = 0 \/ P.tok.address \in BLUECHIP_TOKEN_ADDRESSES) )

\* The resolution of c asked all three sources, the screener having said 0.
C16_Witness ==
  \E p \in Procs :
    LET P == procs[p]
    IN  /\ P.pc = "done" /\ P.exc = "none"
        /\ P.tok.address = <<"c">>
        /\ P.primary = 0
        /\ PriceCalls(P) = <<"screener", "oracle", "router">>
        /\ P.tok.price = 3

\* C17: the screener price of a decoded answer is 0 when the answer
\* carries no pairs; otherwise it is the price of the first pair on this
\* chain ("kava") when there is one, and the price of the first pair of the
\* answer when there is none, the price of a pair being its priceUsd read
\* as a number (a priceUsd that is no number raises a ValueError).
C17_ScreenerChoice ==
  \A p \in Procs :
    LET P == procs[p]
    IN  (Has(P.calls, "screener") /\ "pairs" \in DOMAIN P.screener) =>
          LET pairs == P.screener.pairs
              here == {i \in DOMAIN pairs : pairs[i].chainId = "kava"}
              first == IF here = {} THEN 1
                       ELSE CHOOSE i \in here : \A j \in here : i <= j
          IN  IF pairs = <<>> THEN P.exc = "none" /\ P.primary = 0
              ELSE LET quoted == ParseFloat(PriceText(pairs[first]))
                   IN  IF IsFault(quoted) THEN P.exc = "ValueError"
                       ELSE P.exc = "none" /\ P.primary = quoted.value

\* The answer lists a pair of another chain at 2 before a pair of this
\* chain at "1,3": the screener price is 13.
C17_Witness ==
  \E p \in Procs :
    /\ Has(procs[p].calls, "screener")
    /\ procs[p].screener =
         [pairs |-> << [chainId |-> "ethereum", priceUsd |-> <<"2">>],
                       [chainId |-> "kava", priceUsd |-> <<"1", ",", "3">>] >>]
    /\ procs[p].primary = 13

\* C18: nothing makes identity resolution happen at most once per
\* address: a find that missed the store is never held back by what
\* another worker does, its identity read and its record creation can
\* always go ahead, also when the store holds a record for the address by
\* then; and a find past its creation has a record under its key.
C18_NoMutualExclusion ==
  \A p \in Procs :
    LET P == procs[p]
    IN  /\ P.pc = "multicall" => ENABLED FromChainMulticall(p)
        /\ P.pc = "create" => ENABLED FromChainCreate(p)
        /\ ( /\ P.op = "find" /\ P.tok # NoToken
             /\ P.pc \notin {"multicall", "create"} ) =>
             P.tok.address \in DOMAIN store

\* Two finds for the same unseen address, "b" and "B", both missed the
\* store, both read the identity from the chain and both created the
\* record.
C18_Witness ==
  \E p, q \in Procs :
    /\ p # q
    /\ \A r \in {p, q} :
         /\ procs[r].op = "find"
         /\ Lower(procs[r].arg) = <<"b">>
         /\ <<"b">> \notin DOMAIN procs[r].store0
         /\ Has(procs[r].calls, "multicall")
         /\ procs[r].tok.address = <<"b">>
         /\ procs[r].pc \notin {"multicall", "create"}
    /\ procs[p].arg # procs[q].arg
    /\ procs[p].tok.name # procs[q].tok.name

\* A worker is in, or has ended, the price resolution of a token under a
\* find or a re-resolution.
Resolving(P) == P.op \in {"find", "update"} /\ P.tok # NoToken

\* C19 as stated: the price resolution of a token creates no record for
\* another address and leaves every other record of the store as it was.
C19_OnlyOwnRecord ==
  \A p \in Procs :
    LET P == procs[p]
    IN  Resolving(P) =>
          /\ DOMAIN store \subseteq DOMAIN P.store0 \cup {P.tok.address}
          /\ \A a \in DOMAIN P.store0 \ {P.tok.address} :
               a \in DOMAIN store /\ store[a] = P.store0[a]

\* C19 amended: the price resolution of a token leaves every record the
\* store held for another address as it was, and creates no record for
\* another address but that of the reference asset, which the router pass
\* creates (and prices 1 before it asks the router) when the store did
\* not hold it.
C19_OwnRecordAndStable ==
  \A p \in Procs :
    LET P == procs[p]
        new == DOMAIN store \ (DOMAIN P.store0 \cup {P.tok.address})
    IN  Resolving(P) =>
          /\ new \subseteq {STABLE_TOKEN_ADDRESS}
          /\ \A a \in DOMAIN P.store0 \ {P.tok.address} :
               a \in DOMAIN store /\ store[a] = P.store0[a]
          /\ new # {} =>
               /\ P.tok.price = 0 \/ Has(P.calls, "router")
               /\ Aggregate(P) = 0
               /\ P.stab.address = STABLE_TOKEN_ADDRESS
               /\ SameIdentity(store[STABLE_TOKEN_ADDRESS], P.stab)
               /\ P.pc # "stable_save" =>
                    store[STABLE_TOKEN_ADDRESS].price = 1

\* A re-resolution of c over a store holding b and c ended at the router's
\* price: the record of the reference asset is new, that of b is as it was.
C19_Witness ==
  \E p \in Procs :
    LET P == procs[p]
    IN  /\ P.op = "update" /\ P.pc = "done" /\ P.exc = "none"
        /\ P.tok.address = <<"c">>
        /\ DOMAIN P.store0 = {<<"b">>, <<"c">>}
        /\ DOMAIN store = {<<"a">>, <<"b">>, <<"c">>}
        /\ store[<<"b">>] = P.store0[<<"b">>]
        /\ store[<<"b">>].price = 3
        /\ store[<<"c">>].price = 3

\* C20: a find of an address the store did not hold that ended with an
\* exception has left no record under that address.
C20_FailedFindLeavesNoRecord ==
  \A p \in Procs :
    LET P == procs[p]
    IN  ( /\ P.op = "find" /\ P.pc = "done" /\ P.arg # <<>>
          /\ Lower(P.arg) \notin DOMAIN P.store0
          /\ P.exc # "none" ) =>
          Lower(P.arg) \notin DOMAIN store

====
